---- MODULE Spec2Model ----
(***************************************************************************)
(* Step Execution Engine of the ubuntu provisioning scripts, and the       *)
(* scripts that drive it (scripts/*.py):                                   *)
(*   - Environment (scripts/library/classes.py)                            *)
(*   - Labels      (scripts/library/classes.py)                            *)
(*   - run_one_command / run_many_arguments (scripts/library/utilities.py) *)
(*                                                                         *)
(* Strings are sequences of one-character strings, so that str.replace,    *)
(* str.split, str.strip and shlex.split are computed and not assumed.      *)
(***************************************************************************)
EXTENDS Integers, Sequences, FiniteSets, TLC

VARIABLES
    e,            \* the Environment object (classes.py:16-47)
    host,         \* the child process the host completed most recently
    text,         \* the docstring handed to Labels(...)
    constructed,  \* whether Labels.__init__ returned an object
    labels,       \* Labels.labels
    pad,          \* Labels.pad
    alive,        \* FALSE once sys.exit has been called
    advances,     \* calls of next() so far, while no other method was called
    call,         \* the most recent call into the engine and its outcome
    version,      \* sys.version_info of the host: <<major, minor>>
    script        \* the script being run: its options, position and locals

vars == <<e, host, text, constructed, labels, pad, alive, advances, call,
          version, script>>

(***************************************************************************)
(* Bounds of the model.                                                    *)
(***************************************************************************)
MaxTargets == 3
MaxTextLen == 5
MaxIndex == 3

(***************************************************************************)
(* Python values.                                                          *)
(***************************************************************************)
None == [type |-> "NoneType"]

NoException == "none"

\* subprocess.CompletedProcess as returned by sp.run at utilities.py:104.
\* stdout is captured only with capture_output=True.
CompletedProcess(argv, rc, capture) ==
    [type |-> "CompletedProcess",
     args |-> argv,
     returncode |-> rc,
     stdout |-> IF capture THEN "bytes" ELSE "None"]

(***************************************************************************)
(* Environment.__init__                                                    *)
(***************************************************************************)
\* PASS and FAIL stand for the two glyph strings (a green check mark and a
\* red cross); only their being different matters to the engine.
MAJOR == 3
MINOR == 10
PASS == "PASS"
FAIL == "FAIL"

\* The paths are written from the home directory, where the repository is
\* cloned.
Environment(debug) ==
    [MAJOR |-> MAJOR, MINOR |-> MINOR,
     PASS |-> PASS, FAIL |-> FAIL,
     DEBUG |-> debug,
     RESULT |-> None,
     HOME |-> "~",
     UBUNTU |-> "~/ubuntu",
     OHMYZSH |-> "~/.oh-my-zsh",
     SCRIPTS |-> "~/ubuntu/scripts",
     SHELL |-> "~/ubuntu/shell",
     SYSTEM |-> "~/ubuntu/system",
     VIM |-> "~/ubuntu/vim"]

(***************************************************************************)
(* String helpers.                                                         *)
(***************************************************************************)
SeqsUpTo(S, n) == UNION {[1..k -> S] : k \in 0..n}

StartsWith(s, p) ==
    /\ Len(p) <= Len(s)
    /\ SubSeq(s, 1, Len(p)) = p

Drop(s, n) == SubSeq(s, n + 1, Len(s))

\* str.replace(old, new) with a non-empty old: every non-overlapping
\* occurrence, scanning left to right; the inserted text is not rescanned.
RECURSIVE ReplaceScan(_, _, _)
ReplaceScan(s, old, new) ==
    IF s = <<>> THEN <<>>
    ELSE IF StartsWith(s, old)
         THEN new \o ReplaceScan(Drop(s, Len(old)), old, new)
         ELSE <<Head(s)>> \o ReplaceScan(Tail(s), old, new)

\* str.replace("", new): new is inserted before every character and at the end.
RECURSIVE ReplaceEmpty(_, _)
ReplaceEmpty(s, new) ==
    IF s = <<>> THEN new
    ELSE new \o <<Head(s)>> \o ReplaceEmpty(Tail(s), new)

\* The mutant of str_replace: only the first occurrence is replaced.
RECURSIVE str_replace_first(_, _, _)
str_replace_first(s, old, new) ==
    IF old = <<>> THEN new \o s
    ELSE IF s = <<>> THEN <<>>
    ELSE IF StartsWith(s, old)
         THEN new \o Drop(s, Len(old))
         ELSE <<Head(s)>> \o str_replace_first(Tail(s), old, new)

str_replace(s, old, new) ==
    IF old = <<>> THEN ReplaceEmpty(s, new) ELSE ReplaceScan(s, old, new)

(***************************************************************************)
(* shlex.split(cmd) (POSIX mode, no comments) over an alphabet of word     *)
(* characters, the space and the single quote.  The scanner state is the   *)
(* tokens so far, the token being read, whether a token is open and        *)
(* whether a quote is open.                                                *)
(***************************************************************************)
RECURSIVE ShlexScan(_, _, _, _, _)
ShlexScan(s, toks, cur, inTok, inQuote) ==
    IF s = <<>>
    THEN IF inQuote
         THEN [ok |-> FALSE, argv |-> <<>>]          \* "No closing quotation"
         ELSE [ok |-> TRUE,
               argv |-> IF inTok THEN Append(toks, cur) ELSE toks]
    ELSE LET c == Head(s) IN
         IF inQuote
         THEN IF c = "'"
              THEN ShlexScan(Tail(s), toks, cur, TRUE, FALSE)
              ELSE ShlexScan(Tail(s), toks, Append(cur, c), TRUE, TRUE)
         ELSE IF c = " "
              THEN IF inTok
                   THEN ShlexScan(Tail(s), Append(toks, cur), <<>>, FALSE, FALSE)
                   ELSE ShlexScan(Tail(s), toks, cur, FALSE, FALSE)
              ELSE IF c = "'"
                   THEN ShlexScan(Tail(s), toks, cur, TRUE, TRUE)
                   ELSE ShlexScan(Tail(s), toks, Append(cur, c), TRUE, FALSE)

shlex_split(cmd) == ShlexScan(cmd, <<>>, <<>>, FALSE, FALSE)

(***************************************************************************)
(* run_one_command                                                         *)
(***************************************************************************)
\* The program names the model takes to be installed on the host: every
\* non-empty one.  The empty name cannot be executed (PermissionError).
Installed(prog) == prog # <<>>

\* sp.run(argv, capture_output=capture, stdin=std_in, stdout=std_out): the
\* argument check of subprocess.run, then the spawn; rc is the exit code the
\* child ends with when it is spawned.
sp_run(argv, capture, std_in, std_out, rc) ==
    IF capture /\ std_out # "None"
    THEN [exc |-> "ValueError", result |-> None]
    ELSE IF argv = <<>>
    THEN [exc |-> "IndexError", result |-> None]
    ELSE IF ~Installed(argv[1])
    THEN [exc |-> "OSError", result |-> None]
    ELSE [exc |-> NoException, result |-> CompletedProcess(argv, rc, capture)]

\* Mutant of IsDryRun: the DEBUG flag is ignored.
IsDryRunIgnored(env) == FALSE

\* utilities.py:100  `if e.DEBUG:`
IsDryRun(env) == env.DEBUG

\* Mutant of StoreResult: the slot is written only while it is still unset.
StoreResultOnce(env, proc) ==
    IF env.RESULT = None THEN [env EXCEPT !.RESULT = proc] ELSE env

\* utilities.py:104  `e.RESULT = sp.run(...)`
StoreResult(env, proc) == [env EXCEPT !.RESULT = proc]

\* Mutant of Verdict: only a positive exit code counts as a failure.
VerdictPositiveOnly(env) ==
    IF env.RESULT.returncode > 0 THEN env.FAIL ELSE env.PASS

\* utilities.py:108-110  `if e.RESULT.returncode != 0: return e.FAIL` / `return e.PASS`
Verdict(env) ==
    IF env.RESULT.returncode # 0 THEN env.FAIL ELSE env.PASS

\* The outcome of one call: the environment after it, the exception it
\* raised (or NoException), the value it returned, the child processes the
\* host ran for it, and the calls of run_one_command it made.
Outcome(env, exc, ret, procs, log) ==
    [e |-> env, exc |-> exc, ret |-> ret, procs |-> procs, log |-> log]

run_one_command(env, cmd, capture, std_in, std_out, rc) ==
    LET t == shlex_split(cmd) IN
    IF IsDryRun(env)
    THEN \* the trace line evaluates shlex.split(cmd) before anything is returned
         IF ~t.ok
         THEN Outcome(env, "ValueError", "none", <<>>, <<>>)
         ELSE Outcome(env, NoException, env.PASS, <<>>, <<>>)
    ELSE IF ~t.ok
         THEN Outcome(env, "ValueError", "none", <<>>, <<>>)
         ELSE LET r == sp_run(t.argv, capture, std_in, std_out, rc) IN
              IF r.exc # NoException
              THEN Outcome(env, r.exc, "none", <<>>, <<>>)
              ELSE LET env2 == StoreResult(env, r.result) IN
                   Outcome(env2, NoException, Verdict(env2), <<r.result>>, <<>>)

(***************************************************************************)
(* run_many_arguments                                                      *)
(***************************************************************************)
\* The local `result` before the loop has assigned it.
Unbound == "unbound"

\* Mutant of Substitute: str.replace(marker, target, 1).
SubstituteFirst(cmd, marker, target) == str_replace_first(cmd, marker, target)

\* utilities.py:142  `cmd.replace(marker, target)`
Substitute(cmd, marker, target) == str_replace(cmd, marker, target)

\* Mutant of StopsOn: the loop never returns early.
StopsOnNothing(env, result) == FALSE

\* Mutant of StopsOn: the loop returns after its first iteration.
StopsOnAnything(env, result) == TRUE

\* utilities.py:143  `if result == e.FAIL:`
StopsOn(env, result) == result = env.FAIL

\* The for loop of utilities.py:141-145 from position i on; acc is the
\* outcome so far, acc.ret the local `result`.
RECURSIVE RunManyLoop(_, _, _, _, _, _)
RunManyLoop(cmd, targets, marker, rcs, i, acc) ==
    IF i > Len(targets)
    THEN \* utilities.py:145  `return result`
         IF acc.ret = Unbound
         THEN Outcome(acc.e, "UnboundLocalError", "none", acc.procs, acc.log)
         ELSE acc
    ELSE LET sub == Substitute(cmd, marker, targets[i])
             r == run_one_command(acc.e, sub, TRUE, "None", "None", rcs[i])
             log2 == Append(acc.log,
                            [target |-> targets[i], cmd |-> sub,
                             exc |-> r.exc, ret |-> r.ret])
             procs2 == acc.procs \o r.procs
         IN  IF r.exc # NoException
             THEN Outcome(r.e, r.exc, "none", procs2, log2)
             ELSE IF StopsOn(acc.e, r.ret)
                  THEN Outcome(r.e, NoException, r.ret, procs2, log2)
                  ELSE RunManyLoop(cmd, targets, marker, rcs, i + 1,
                                   Outcome(r.e, NoException, r.ret, procs2, log2))

run_many_arguments(env, cmd, targets, marker, rcs) ==
    RunManyLoop(cmd, targets, marker, rcs, 1,
                Outcome(env, NoException, Unbound, <<>>, <<>>))

(***************************************************************************)
(* The inputs the Command Runner is driven with.                           *)
(***************************************************************************)
\* Command strings: empty, a plain word, the marker once and twice, two
\* words, a quoted marker, an unclosed quote.
Cmds ==
    { <<>>,
      <<"x">>,
      <<"T">>,
      <<"T", "T">>,
      <<"x", " ", "T">>,
      <<"'", "T", "'">>,
      <<"'", "T">> }

Markers == { <<"T">>, <<"T", "T">>, <<>> }

\* Argument values: a plain one and one that carries a quote.
Values == { <<"a">>, <<"'">> }

TargetLists == SeqsUpTo(Values, MaxTargets)

ExitCodes == {0, 1, -9}

Streams == {"None", "file"}

(***************************************************************************)
(* Actions of the Command Runner.                                          *)
(***************************************************************************)
\* No call is in progress: the caller is between two calls.
NoCall == [op |-> "none", exc |-> NoException]

RunnerCall(op, cmd, capture, std_in, std_out, targets, marker, out) ==
    [op |-> op, cmd |-> cmd, capture |-> capture,
     std_in |-> std_in, std_out |-> std_out,
     targets |-> targets, marker |-> marker,
     exc |-> out.exc, ret |-> out.ret, procs |-> out.procs, log |-> out.log]

Host(h, procs) == IF procs = <<>> THEN h ELSE procs[Len(procs)]

RunOne ==
    /\ alive
    /\ call = NoCall
    /\ \E cmd \in Cmds, capture \in BOOLEAN, std_in \in Streams,
          std_out \in Streams, rc \in ExitCodes :
          LET out == run_one_command(e, cmd, capture, std_in, std_out, rc) IN
          /\ e' = out.e
          /\ host' = Host(host, out.procs)
          /\ call' = RunnerCall("run_one_command", cmd, capture, std_in,
                                std_out, <<>>, <<>>, out)
    /\ UNCHANGED <<text, constructed, labels, pad, alive, advances,
                   version, script>>

\* A call of run_many_arguments by a caller that is between two calls.
RunManyCall(cmd, marker, targets, rcs) ==
    LET out == run_many_arguments(e, cmd, targets, marker, rcs) IN
    /\ e' = out.e
    /\ host' = Host(host, out.procs)
    /\ call' = RunnerCall("run_many_arguments", cmd, TRUE, "None",
                          "None", targets, marker, out)

RunMany ==
    /\ alive
    /\ call = NoCall
    /\ \E cmd \in Cmds, marker \in Markers, targets \in TargetLists :
       \E rcs \in [1..Len(targets) -> ExitCodes] :
          RunManyCall(cmd, marker, targets, rcs)
    /\ UNCHANGED <<text, constructed, labels, pad, alive, advances,
                   version, script>>

\* run_many_arguments on lists of one and two values, with every exit code.
RunManyShort ==
    /\ alive
    /\ call = NoCall
    /\ \E targets \in {<<<<"a">>>>, <<<<"a">>, <<"a">>>>} :
       \E rcs \in [1..Len(targets) -> ExitCodes] :
          RunManyCall(<<"x", " ", "T">>, <<"T">>, targets, rcs)
    /\ UNCHANGED <<text, constructed, labels, pad, alive, advances,
                   version, script>>

\* The caller takes the outcome of the call and moves on.
Return ==
    /\ alive
    /\ call # NoCall
    /\ call' = NoCall
    /\ UNCHANGED <<e, host, text, constructed, labels, pad, alive, advances,
                   version, script>>


(***************************************************************************)
(* Labels.__init__                                                         *)
(***************************************************************************)
NL == "\n"

IsSpace(c) == c \in {" ", NL}

\* s.split('\n'): cur is the piece being read.
RECURSIVE SplitLines(_, _)
SplitLines(s, cur) ==
    IF s = <<>> THEN <<cur>>
    ELSE IF Head(s) = NL
         THEN <<cur>> \o SplitLines(Tail(s), <<>>)
         ELSE SplitLines(Tail(s), Append(cur, Head(s)))

RECURSIVE LStrip(_)
LStrip(s) ==
    IF s # <<>> /\ IsSpace(Head(s)) THEN LStrip(Tail(s)) ELSE s

RECURSIVE RStrip(_)
RStrip(s) ==
    IF s # <<>> /\ IsSpace(s[Len(s)]) THEN RStrip(SubSeq(s, 1, Len(s) - 1)) ELSE s

\* Mutant of Strip: only the left side is trimmed.
StripLeftOnly(s) == LStrip(s)

\* token.strip()
Strip(s) == RStrip(LStrip(s))

\* [t for token in tokens if (t := token.strip())]
RECURSIVE StripAndKeep(_)
StripAndKeep(tokens) ==
    IF tokens = <<>> THEN <<>>
    ELSE LET t == Strip(Head(tokens)) IN
         IF t # <<>> THEN <<t>> \o StripAndKeep(Tail(tokens))
         ELSE StripAndKeep(Tail(tokens))

\* classes.py:84, the margin added to the longest label
PadMargin == 3

MaxOf(S) == CHOOSE m \in S : \A k \in S : k <= m

\* Mutant of Labels_init: a text without a label gives an empty queue with
\* the bare margin as its width.
Labels_init_lenient(s) ==
    LET ls == StripAndKeep(SplitLines(s, <<>>)) IN
    [exc |-> NoException,
     labels |-> ls,
     pad |-> IF ls = <<>> THEN PadMargin
             ELSE MaxOf({Len(ls[i]) : i \in 1..Len(ls)}) + PadMargin]

\* Labels(s): the object, or the ValueError of max() over an empty list.
Labels_init(s) ==
    LET ls == StripAndKeep(SplitLines(s, <<>>)) IN
    IF ls = <<>>
    THEN [exc |-> "ValueError", labels |-> <<>>, pad |-> 0]
    ELSE [exc |-> NoException,
          labels |-> ls,
          pad |-> MaxOf({Len(ls[i]) : i \in 1..Len(ls)}) + PadMargin]

(***************************************************************************)
(* Labels methods.  Each yields the list after the call, the exception     *)
(* raised (or NoException), the label returned or printed, and whether     *)
(* sys.exit was called.                                                    *)
(***************************************************************************)
LabelsOutcome(ls, exc, ret, printed, exited) ==
    [labels |-> ls, exc |-> exc, ret |-> ret, printed |-> printed,
     exited |-> exited]

\* Mutant of RemoveAt: the labels in front of position i go as well.
RemoveThrough(ls, i) == SubSeq(ls, i + 1, Len(ls))

\* Mutant of RemoveAt: the labels that remain come out in reverse order.
RemoveAtReversed(ls, i) ==
    [k \in 1..(Len(ls) - 1) |->
        (SubSeq(ls, 1, i - 1) \o SubSeq(ls, i + 1, Len(ls)))[Len(ls) - k]]

\* list.pop(i) for a valid 1-based position i
RemoveAt(ls, i) == SubSeq(ls, 1, i - 1) \o SubSeq(ls, i + 1, Len(ls))

\* f'{label:.<{pad}}': the label filled with dots on the right up to the width
Dots(label, width) ==
    label \o [k \in 1..(IF width > Len(label) THEN width - Len(label) ELSE 0) |-> "."]

\* Mutant of IsExhausted: the last label counts as none left.
IsExhaustedEarly(ls) == Len(ls) <= 1

\* classes.py:95, 113, 130, 152  `if len(self.labels) == 0:`
IsExhausted(ls) == Len(ls) = 0

Labels_next(ls, width) ==
    IF IsExhausted(ls)
    THEN LabelsOutcome(ls, "ExhaustedListError", <<>>, <<>>, FALSE)
    ELSE LabelsOutcome(RemoveAt(ls, 1), NoException, <<>>, Dots(ls[1], width), FALSE)

\* Mutant of pop_first: the label at the back is the one removed.
pop_first_from_back(ls) ==
    IF ls = <<>>
    THEN LabelsOutcome(ls, "ExhaustedListError", <<>>, <<>>, FALSE)
    ELSE LabelsOutcome(SubSeq(ls, 1, Len(ls) - 1), NoException, ls[Len(ls)],
                       <<>>, FALSE)

pop_first(ls) ==
    IF IsExhausted(ls)
    THEN LabelsOutcome(ls, "ExhaustedListError", <<>>, <<>>, FALSE)
    ELSE LabelsOutcome(RemoveAt(ls, 1), NoException, ls[1], <<>>, FALSE)

pop_last(ls) ==
    IF IsExhausted(ls)
    THEN LabelsOutcome(ls, "ExhaustedListError", <<>>, <<>>, FALSE)
    ELSE LabelsOutcome(RemoveAt(ls, Len(ls)), NoException, ls[Len(ls)], <<>>, FALSE)

\* Mutant of ReportAndExit: the IndexError is left to the caller.
Reraise(ls) == LabelsOutcome(ls, "IndexError", <<>>, <<>>, FALSE)

\* classes.py:156-158  except IndexError as e: print(e); sys.exit(1)
ReportAndExit(ls) == LabelsOutcome(ls, "SystemExit", <<>>, <<>>, TRUE)

\* list.pop(index) accepts -len <= index < len; a negative index counts
\* from the back.  Otherwise IndexError, which pop_item reports before
\* sys.exit(1).
pop_item(ls, index) ==
    IF IsExhausted(ls)
    THEN LabelsOutcome(ls, "ExhaustedListError", <<>>, <<>>, FALSE)
    ELSE IF index >= Len(ls) \/ index < -Len(ls)
         THEN ReportAndExit(ls)
         ELSE LET i == IF index < 0 THEN index + Len(ls) + 1 ELSE index + 1 IN
              LabelsOutcome(RemoveAt(ls, i), NoException, ls[i], <<>>, FALSE)

\* Mutant of DumpRefuses: isinstance(num_labels, int) lets a bool through, and
\* a count equal to the length is refused.
DumpRefusesLoosely(ls, n) ==
    \/ n.type \notin {"int", "bool"}
    \/ n.val <= 0
    \/ Len(ls) <= n.val

\* classes.py:174-175  type(num_labels) != int or num_labels <= 0 or
\* len(self.labels) < num_labels; the comparisons are only reached by an int
DumpRefuses(ls, n) ==
    \/ n.type # "int"
    \/ n.val <= 0
    \/ Len(ls) < n.val

dump(ls, n) ==
    IF DumpRefuses(ls, n)
    THEN LabelsOutcome(ls, NoException, <<>>, <<>>, FALSE)
    ELSE LabelsOutcome(SubSeq(ls, n.val + 1, Len(ls)), NoException, <<>>, <<>>, FALSE)

(***************************************************************************)
(* The inputs the Label Queue is driven with.                              *)
(***************************************************************************)
TextAlphabet == {"a", "b", " ", NL}

Texts == SeqsUpTo(TextAlphabet, MaxTextLen)

Indexes == (0 - MaxIndex - 1)..MaxIndex

\* Arguments of dump: ints, and values of other types (True, 1.0, "1")
DumpArgs ==
    [type : {"int"}, val : (0 - 1)..(MaxIndex + 1)]
      \cup [type : {"bool", "float", "str"}, val : {1}]

(***************************************************************************)
(* Actions of the Label Queue.                                             *)
(***************************************************************************)
\* Mutant of PadAfter: the width follows the labels that are left.
PadRecomputed(width, ls) ==
    IF ls = <<>> THEN width
    ELSE MaxOf({Len(ls[i]) : i \in 1..Len(ls)}) + PadMargin

\* self.pad is assigned in __init__ only (classes.py:84); no method of the
\* class writes it, so a call leaves the width as it was.
PadAfter(width, ls) == width

LabelsCall(op, arg, before, out) ==
    [op |-> op, arg |-> arg, before |-> before,
     exc |-> out.exc, ret |-> out.ret, printed |-> out.printed]

\* The count of next() calls saturates one past the longest text.
Advanced(op) ==
    IF op = "next" /\ advances >= 0
    THEN (IF advances <= MaxTextLen THEN advances + 1 ELSE advances)
    ELSE 0 - 1

LabelsStep(op, arg, out) ==
    /\ labels' = out.labels
    /\ alive' = ~out.exited
    /\ advances' = Advanced(op)
    /\ call' = LabelsCall(op, arg, labels, out)
    /\ pad' = PadAfter(pad, out.labels)
    /\ UNCHANGED <<e, host, text, constructed, version, script>>

Next_label ==
    /\ alive /\ constructed /\ call = NoCall
    /\ LabelsStep("next", 0, Labels_next(labels, pad))

PopFirst ==
    /\ alive /\ constructed /\ call = NoCall
    /\ LabelsStep("pop_first", 0, pop_first(labels))

PopLast ==
    /\ alive /\ constructed /\ call = NoCall
    /\ LabelsStep("pop_last", 0, pop_last(labels))

PopItem ==
    /\ alive /\ constructed /\ call = NoCall
    /\ \E index \in Indexes : LabelsStep("pop_item", index, pop_item(labels, index))

Dump ==
    /\ alive /\ constructed /\ call = NoCall
    /\ \E n \in DumpArgs : LabelsStep("dump", n, dump(labels, n))

(***************************************************************************)
(* min_python_version and the entry points (main of every script).         *)
(***************************************************************************)
\* The message names the required version.
VersionMessage(env) == [type |-> "str", major |-> env.MAJOR, minor |-> env.MINOR]

\* utilities.py:222-225; v is sys.version_info as <<major, minor>>
min_python_version(env, v) ==
    IF v[1] < env.MAJOR \/ v[2] < env.MINOR
    THEN VersionMessage(env)
    ELSE None

\* Mutant of AbortsOn: the result of the check is not looked at.
AbortsNever(check) == FALSE

\* `if (result := min_python_version(e)): raise RuntimeError(result)`:
\* a message is a non-empty string, hence true; None is false.
AbortsOn(check) == check # None

(***************************************************************************)
(* The scripts.  A script is the sequence of the statements of its         *)
(* run_script (run_updates, burn_it_up) that touch the engine or the       *)
(* terminal, in program order; a branch or a loop of the source is a       *)
(* statement that skips forward or goes back a number of statements.  A    *)
(* command is written word by word, a word standing for its characters,    *)
(* and a label is one word.                                                *)
(***************************************************************************)
\* ' '.join(ws)
RECURSIVE Words(_)
Words(ws) ==
    IF Len(ws) <= 1 THEN ws
    ELSE <<Head(ws), " ">> \o Words(Tail(ws))

\* The docstring handed to Labels: every label on a line of its own, indented.
RECURSIVE DocString(_)
DocString(names) ==
    IF names = <<>> THEN <<>>
    ELSE <<NL, " ", Head(names)>> \o DocString(Tail(names))

Stmt(op) ==
    [op |-> op, cmd |-> <<>>, capture |-> TRUE, std_in |-> "None",
     targets |-> <<>>, use |-> "none", n |-> 0, text |-> <<>>]

\* labels = Labels("""...""")
NewLabels(names) == [Stmt("Labels") EXCEPT !.text = DocString(names)]

\* labels.next(), labels.pop_first(), labels.dump(n)
PrintNext == Stmt("next")
PopFirstLabel == Stmt("pop_first")
\* Mutant of DumpLabels: one label less than asked for is dumped.
DumpLabelsOneLess(n) == [Stmt("dump") EXCEPT !.n = n - 1]

DumpLabels(n) == [Stmt("dump") EXCEPT !.n = n]

\* run_one_command(e, cmd) used as a statement
Run(ws) == [Stmt("run") EXCEPT !.cmd = Words(ws)]

\* run_one_command(e, cmd, capture=False) used as a statement
RunVerbose(ws) == [Stmt("run") EXCEPT !.cmd = Words(ws), !.capture = FALSE]

\* print(run_one_command(e, cmd))
PrintRun(ws) == [Stmt("run") EXCEPT !.cmd = Words(ws), !.use = "print"]

\* result = run_one_command(e, cmd)
ResultRun(ws) == [Stmt("run") EXCEPT !.cmd = Words(ws), !.use = "result"]

\* with open(path, 'r') as f: result = run_one_command(e, cmd, std_in=f)
ResultRunFrom(ws) ==
    [Stmt("run") EXCEPT !.cmd = Words(ws), !.use = "result", !.std_in = "file"]

\* if run_one_command(e, cmd) == e.PASS: the next n statements, else past them
IfRun(ws, n) == [Stmt("run") EXCEPT !.cmd = Words(ws), !.use = "test", !.n = n]

\* print(run_many_arguments(e, cmd, targets))
PrintRunMany(ws, targets) ==
    [Stmt("run_many") EXCEPT !.cmd = Words(ws), !.targets = targets,
                             !.use = "print"]

\* result = run_many_arguments(e, cmd, targets)
ResultRunMany(ws, targets) ==
    [Stmt("run_many") EXCEPT !.cmd = Words(ws), !.targets = targets,
                             !.use = "result"]

\* result = sync_notebooks(e)   (utilities.py:198-203)
ResultSync ==
    ResultRun(<<"rsync", "~/.notebooksrepo/", "~/notebooks", "-rc",
                "--exclude-from=system/rsync_exclude.txt", "--delete",
                "--delete-excluded">>)

\* print(result), print(e.PASS)
PrintResult == [Stmt("print") EXCEPT !.use = "result"]
PrintPass == [Stmt("print") EXCEPT !.use = "PASS"]

\* result = e.PASS
ResultPass == Stmt("result_pass")

\* if <cond>: the next n statements, else past them
If(cond, n) == [Stmt("if") EXCEPT !.use = cond, !.n = n]

\* break, or the end of a taken branch that has an else: past n statements
Skip(n) == [Stmt("skip") EXCEPT !.n = n]

\* the end of a loop body: n statements back, to the head of the loop
Back(n) == [Stmt("back") EXCEPT !.n = n]

\* a statement that works on files or prints a message: no engine call
Local(what) == [Stmt("local") EXCEPT !.use = what]

\* clean_str(e.RESULT.stdout)
ReadStdout == Stmt("stdout")

\* the final message and `return`
Done == Stmt("done")

\* certlist / cert_databases: the files found in a directory
Find(what) == [Stmt("find") EXCEPT !.use = what]

\* try: <file operations>; print(e.PASS)  except Exception: print(e.FAIL)
TryFiles == Stmt("try")

\* if <cond>: body
IfThen(cond, body) == <<If(cond, Len(body))>> \o body

\* if <cond>: a  else: b
IfElse(cond, a, b) == <<If(cond, Len(a) + 1)>> \o a \o <<Skip(Len(b))>> \o b

\* for x in <list>: body
ForEach(what, body) ==
    <<[Stmt("iter") EXCEPT !.use = what],
      [Stmt("for") EXCEPT !.use = what, !.n = Len(body) + 1]>>
      \o body \o <<Back(Len(body) + 1)>>

\* Mutant of BreakIfFail: the loop goes on after a failure.
BreakNever == <<If("fail", 1), Skip(0)>>

\* `if result == e.FAIL: break` as the last statement of a loop body
BreakIfFail == <<If("fail", 1), Skip(1)>>

(***************************************************************************)
(* tuneup.py, run_updates (lines 20-93)                                    *)
(***************************************************************************)
\* Mutant of PipRound: the label of a package that is not installed stays in
\* the queue.
PipRoundWithoutPop(pip) ==
    <<IfRun(<<"pip3", "show", pip>>, 3),
      PrintNext,
      PrintRun(<<"pip3", "install", "--upgrade", pip>>),
      Skip(1),
      Skip(0)>>

\* tuneup.py:70-77, one round of `for pip in pips`
PipRound(pip) ==
    <<IfRun(<<"pip3", "show", pip>>, 3),
      PrintNext,
      PrintRun(<<"pip3", "install", "--upgrade", pip>>),
      Skip(1),
      PopFirstLabel>>

tuneup ==
    <<NewLabels(<<"Pulling updates to git repo",
                  "Scanning for updates to pip",
                  "Scanning for updates to jupyter",
                  "Scanning for updates to jupyter lab",
                  "Scanning for updates to pytest",
                  "Synchronizing jupyter notebooks">>),
      RunVerbose(<<"sudo", "apt", "update">>),
      RunVerbose(<<"sudo", "apt", "upgrade", "-y">>),
      RunVerbose(<<"sudo", "apt", "autoclean", "-y">>),
      RunVerbose(<<"sudo", "apt", "autoremove", "-y">>),
      RunVerbose(<<"sudo", "snap", "refresh">>)>>
    \o IfThen("all",
         <<Local("print"),
           PrintNext,
           PrintRun(<<"git", "-C", "~/ubuntu", "pull">>)>>
         \o PipRound("pip") \o PipRound("jupyter")
         \o PipRound("jupyterlab") \o PipRound("pytest")
         \o <<PrintNext,
              ResultRun(<<"git", "-C", "~/.notebooksrepo", "pull">>)>>
         \o IfThen("pass", <<ResultSync>>)
         \o <<PrintResult>>)
    \o <<Done>>

(***************************************************************************)
(* docker_setup.py, run_script (lines 24-167)                              *)
(***************************************************************************)
docker_setup ==
    <<NewLabels(<<"System initialization",
                  "Updating package index",
                  "Installing dependencies",
                  "Installing Docker public key",
                  "Mapping the Docker repository",
                  "Installing Docker Engine",
                  "Installing Docker Compose",
                  "Adding user to Docker group">>),
      Local("print"),
      Run(<<"sudo", "ls">>),
      \* Step 1
      PrintNext,
      PrintPass,
      \* Step 2
      PrintNext,
      Run(<<"sudo", "apt", "update">>),
      Run(<<"sudo", "apt", "upgrade", "-y">>),
      PrintPass,
      \* Step 3
      PrintNext,
      PrintRunMany(<<"sudo", "apt", "install", "TARGET", "-y">>,
                   <<<<"apt-transport-https">>, <<"ca-certificates">>,
                     <<"curl">>, <<"gnupg-agent">>, <<"make">>,
                     <<"software-properties-common">>>>),
      \* Step 4
      PrintNext,
      ResultRun(<<"curl", "-o", "temp1", "-fsSL", "keyloc">>)>>
    \o IfThen("pass",
         <<ResultRun(<<"gpg", "-o", "temp2", "--dearmor", "temp1">>)>>
         \o IfThen("pass",
              <<ResultRun(<<"sudo", "mv", "temp2", "dest", "-f">>)>>
              \o IfThen("pass",
                   <<ResultRun(<<"rm", "temp1", "-f">>)>>)))
    \o <<PrintResult,
         \* Step 5
         PrintNext,
         Run(<<"dpkg", "--print-architecture">>),
         ReadStdout,
         Run(<<"lsb_release", "-cs">>),
         ReadStdout,
         Local("write"),
         PrintRun(<<"sudo", "mv", "tempdest", "dest", "-f">>),
         \* Step 6
         PrintNext,
         ResultRun(<<"sudo", "apt", "update">>)>>
    \o IfThen("pass",
         <<ResultRunMany(<<"sudo", "apt", "install", "TARGET", "-y">>,
                         <<<<"docker-ce">>, <<"docker-ce-cli">>,
                           <<"containerd.io">>>>)>>)
    \o <<PrintResult,
         \* Step 7
         PrintNext,
         PrintRun(<<"sudo", "apt", "install", "docker-compose-plugin", "-y">>),
         \* Step 8
         PrintNext,
         PrintRun(<<"sudo", "usermod", "-aG", "docker", "user">>),
         Done>>

(***************************************************************************)
(* usnapatch.py, run_script (lines 49-207)                                 *)
(***************************************************************************)
usnapatch ==
    <<NewLabels(<<"Pulling updated USNA enterprise certificates",
                  "Patching openssl configuration",
                  "Removing old certificates",
                  "Creating fresh directories",
                  "Copying new certificates",
                  "Running update utilities",
                  "Finding certificate databases in user's home",
                  "Updating certificate databases",
                  "Cleaning up">>),
      Local("print"),
      Run(<<"sudo", "ls">>),
      \* Step 1
      PrintNext,
      Local("mkdir"),
      ResultRun(<<"curl", "-o", "certdir/certs.tgz", "CERTFILE">>),
      If("fail", 1),
      Skip(1),
      ResultRun(<<"tar", "-xpf", "certdir/certs.tgz", "-C", "certdir">>)>>
    \o IfThen("pass", <<Find("certs")>>)
    \o <<PrintResult>>
    \* Step 2
    \o IfElse("system",
         <<PrintNext,
           PrintRun(<<"sudo", "cp", "-f", "system/openssl.cnf",
                      "/usr/lib/ssl/openssl.cnf">>),
           PrintNext,
           PrintRunMany(<<"sudo", "rm", "-rf", "TARGET">>,
                        <<<<"/usr/share/ca-certificates/dod">>,
                          <<"/usr/local/share/ca-certificates/dod">>>>),
           PrintNext,
           PrintRun(<<"sudo", "mkdir", "-p",
                      "/usr/local/share/ca-certificates/dod">>),
           PrintNext>>
         \o ForEach("certs",
              <<ResultRun(<<"sudo", "cp", "cert",
                            "/usr/local/share/ca-certificates/dod">>)>>
              \o BreakIfFail)
         \o <<PrintResult,
              PrintNext,
              PrintRun(<<"sudo", "update-ca-certificates", "-f">>),
              DumpLabels(2)>>,
         IfThen("browser",
           <<DumpLabels(5),
             PrintNext,
             Find("dbs"),
             PrintPass,
             PrintNext,
             ResultPass>>
           \o ForEach("dbs",
                ForEach("certs",
                  <<ResultRun(<<"certutil", "-d", "sql:db", "-A", "-t",
                                "TC", "-n", "stem", "-i", "cert">>)>>
                  \o BreakIfFail)
                \o BreakIfFail)
           \o <<PrintResult>>))
    \* Step 3
    \o <<PrintNext,
         PrintRun(<<"rm", "-rf", "certdir">>),
         Done>>

(***************************************************************************)
(* setup.py, run_script (lines 25-375)                                     *)
(***************************************************************************)
\* 'sudo apt -y install TARGET', the template of Steps 6 to 8
AptInstall == <<"sudo", "apt", "-y", "install", "TARGET">>

\* setup.py:122-132 and 203-213: dconf reset, then dconf load from a file
DconfStep(dir) ==
    <<PrintNext,
      ResultRun(<<"dconf", "reset", "-f", dir>>)>>
    \o IfThen("pass",
         IfThen("debug", <<Local("print")>>)
         \o <<ResultRunFrom(<<"dconf", "load", dir>>)>>)
    \o <<PrintResult>>

setup ==
    <<NewLabels(<<"System initialization",
                  "Creating new directories",
                  "Copying files",
                  "Adjusting file permissions",
                  "Setting terminal profile",
                  "Installing developer tools",
                  "Installing seahorse nautilus",
                  "Installing zsh",
                  "Setting Text Editor profile",
                  "Installing python pip3",
                  "Installing python venv",
                  "Creating virtual environment (env)",
                  "Installing Google Chrome",
                  "Setting up jupyter notebooks",
                  "Refreshing snaps (please be patient)",
                  "Configuring favorites",
                  "Disabling auto screen lock",
                  "Setting idle timeout to \"never\"",
                  "Disabling auto updates",
                  "Patching fuse.conf",
                  "Tidying icons",
                  "Cleaning up">>),
      \* Step 1
      PrintNext,
      PrintPass,
      \* Step 2
      PrintNext>>
    \o IfElse("debug", <<Local("print")>>, <<Local("mkdir")>>)
    \o <<PrintPass,
         \* Step 3
         PrintNext,
         Local("copy_files"),
         PrintPass,
         \* Step 4
         PrintNext,
         PrintRun(<<"find", "~/ubuntu/scripts/", "-name", "*.py", "-exec",
                    "chmod", "754", "{}", ";">>)>>
    \* Step 5
    \o DconfStep("/org/gnome/terminal/")
    \o <<Local("print"),
         Run(<<"sudo", "ls">>),
         \* Step 6
         PrintNext,
         PrintRunMany(AptInstall,
                      <<<<"gnome-text-editor">>, <<"build-essential">>,
                        <<"libnss3-tools">>, <<"pcscd">>, <<"pcsc-tools">>,
                        <<"ccache">>, <<"vim">>, <<"tree">>>>),
         \* Step 7
         PrintNext,
         PrintRun(str_replace(AptInstall, <<"TARGET">>,
                              <<"seahorse-nautilus">>)),
         \* Step 8
         PrintNext,
         ResultRunMany(AptInstall, <<<<"zsh">>, <<"powerline">>>>)>>
    \o IfThen("pass",
         <<ResultRun(<<"git", "clone", "oh-my-zsh.git", "~/.oh-my-zsh",
                       "--depth", "1">>)>>)
    \o IfThen("pass", <<Local("copy_files")>>)
    \o <<PrintResult>>
    \* Step 9
    \o DconfStep("/org/gnome/TextEditor/")
    \o <<\* Step 10
         PrintNext,
         PrintRun(<<"sudo", "apt", "install", "-y", "python3-pip">>),
         \* Step 11
         PrintNext,
         PrintRun(<<"sudo", "apt", "install", "-y", "python3-venv">>),
         \* Step 12
         PrintNext,
         PrintRun(<<"python3", "-m", "venv", "~/.venv">>),
         \* Step 13
         PrintNext,
         ResultRun(<<"wget", "-O", "/tmp/google_deb", "src">>)>>
    \o IfThen("pass", <<ResultRun(<<"sudo", "dpkg", "-i", "/tmp/google_deb">>)>>)
    \o <<PrintResult,
         \* Step 14
         PrintNext,
         ResultRun(<<"git", "clone", "notebooks.git", "~/.notebooksrepo",
                     "--single-branch", "--depth", "1">>)>>
    \o IfThen("pass", <<ResultSync>>)
    \o <<PrintResult,
         \* Step 15
         PrintNext,
         PrintRun(<<"sudo", "snap", "refresh">>),
         \* Step 16
         PrintNext,
         PrintRun(<<"gsettings", "set", "org.gnome.shell", "favorite-apps",
                    "favorites">>),
         \* Step 17
         PrintNext,
         PrintRun(<<"gsettings", "set", "org.gnome.desktop.screensaver",
                    "lock-enabled", "false">>),
         \* Step 18
         PrintNext,
         PrintRun(<<"gsettings", "set", "org.gnome.desktop.session",
                    "idle-delay", "0">>),
         \* Step 19
         PrintNext,
         ResultRun(<<"sudo", "sed", "-i", "s+Update-Package-Lists+",
                     "/etc/apt/apt.conf.d/20auto-upgrades">>)>>
    \o IfThen("pass",
         <<ResultRun(<<"sudo", "sed", "-i", "s+Unattended-Upgrade+",
                       "/etc/apt/apt.conf.d/20auto-upgrades">>)>>)
    \o <<PrintResult,
         \* Step 20
         PrintNext,
         PrintRun(<<"sudo", "sed", "-i", "s+user_allow_other+",
                    "/etc/fuse.conf">>),
         \* Step 21
         PrintNext,
         PrintRunMany(<<"gsettings", "set", "TARGET">>,
                      <<Words(<<"dash-to-dock", "show-trash", "false">>),
                        Words(<<"dash-to-dock", "show-mounts", "false">>),
                        Words(<<"ding", "start-corner", "bottom-left">>),
                        Words(<<"ding", "show-trash", "true">>)>>),
         \* Step 22
         PrintNext,
         ResultRunMany(<<"rm", "-f", "TARGET">>, <<<<"/tmp/google_deb">>>>)>>
    \o IfThen("pass", <<ResultRun(<<"sudo", "snap", "remove", "firefox">>)>>)
    \o <<PrintResult,
         Done>>

(***************************************************************************)
(* pyenv_setup.py, vim_setup.py, cacheburn.py, pytools.py                  *)
(***************************************************************************)
pyenv_setup ==
    <<NewLabels(<<"System initialization",
                  "Updating package index",
                  "Checking dependencies",
                  "Cloning git repository",
                  "Adjusting shell environments">>),
      Local("print"),
      Run(<<"sudo", "ls">>),
      PrintNext,
      PrintPass,
      PrintNext,
      PrintRun(<<"sudo", "apt", "update">>),
      PrintNext,
      PrintRunMany(<<"sudo", "apt", "install", "TARGET", "-y">>,
                   <<<<"make">>, <<"build-essential">>, <<"libssl-dev">>,
                     <<"zlib1g-dev">>, <<"libbz2-dev">>,
                     <<"libreadline-dev">>, <<"libsqlite3-dev">>,
                     <<"wget">>, <<"curl">>, <<"llvm">>,
                     <<"libncursesw5-dev">>, <<"xz-utils">>, <<"tk-dev">>,
                     <<"libxml2-dev">>, <<"libxmlsec1-dev">>,
                     <<"libffi-dev">>, <<"liblzma-dev">>, <<"git">>>>),
      PrintNext,
      PrintRun(<<"git", "clone", "pyenv.git", "~/.pyenv", "--depth", "1">>),
      PrintNext,
      TryFiles,
      Done>>

vim_setup ==
    <<NewLabels(<<"System initialization",
                  "Creating new directories",
                  "Copying files">>),
      PrintNext,
      PrintPass,
      PrintNext>>
    \o IfElse("debug", <<Local("print")>>, <<Local("mkdir")>>)
    \o <<PrintPass,
         PrintNext,
         Local("copy_files"),
         PrintPass,
         Done>>

\* cacheburn.py:33, 45: the two find templates with their word replaced
BurnDir(dir) ==
    <<"find", "~/shares", "-name", dir, "-type", "d", "-exec", "rm", "-rvf",
      "{}", ";", "-prune">>

BurnFile(file) == <<"find", "~/shares", "-name">> \o file \o <<"-type", "f", "-delete">>

cacheburn ==
    <<NewLabels(<<"Deleting __pycache__ directories",
                  "Deleting .pytest_cache directories",
                  "Deleting .ipynb_checkpoints directories",
                  "Zapping pesky Icon files",
                  "Crunching annoying desktop.ini files">>),
      PrintNext,
      PrintRun(BurnDir("__pycache__")),
      PrintNext,
      PrintRun(BurnDir(".pytest_cache")),
      PrintNext,
      PrintRun(BurnDir(".ipynb_checkpoints")),
      PrintNext,
      PrintRun(BurnFile(<<"Icon?", "-size", "0">>)),
      PrintNext,
      PrintRun(BurnFile(<<"desktop.ini">>)),
      Done>>

pytools ==
    <<NewLabels(<<"System initialization",
                  "Installing jupyter",
                  "Installing jupyter lab",
                  "Installing pytest">>),
      PrintNext,
      PrintPass,
      PrintNext,
      PrintRun(<<"pip3", "install", "--upgrade", "jupyter">>),
      PrintNext,
      PrintRun(<<"pip3", "install", "--upgrade", "jupyterlab">>),
      PrintNext,
      PrintRun(<<"pip3", "install", "--upgrade", "pytest">>),
      Done>>

Program(name) ==
    CASE name = "setup" -> setup
      [] name = "usnapatch" -> usnapatch
      [] name = "tuneup" -> tuneup
      [] name = "docker_setup" -> docker_setup
      [] name = "pyenv_setup" -> pyenv_setup
      [] name = "vim_setup" -> vim_setup
      [] name = "cacheburn" -> cacheburn
      [] name = "pytools" -> pytools
      [] OTHER -> <<>>

(***************************************************************************)
(* A run of a script: main, then the statements of its program one by one. *)
(***************************************************************************)
\* The largest number of files a directory scan of usnapatch finds.
MaxFound == 2

\* The scripts and the values of their command-line option (usnapatch's
\* mode, tuneup's --all).
Invocations ==
    [name : {"setup", "docker_setup", "pyenv_setup", "vim_setup",
             "cacheburn", "pytools"}, opt : {"none"}]
      \cup [name : {"usnapatch"}, opt : {"system", "browser"}]
      \cup [name : {"tuneup"}, opt : {"all", "none"}]

\* sys.version_info of the hosts: around the required version on both parts
HostVersions ==
    {<<major, minor>> : major \in (MAJOR - 1)..(MAJOR + 1),
                        minor \in {0, MINOR - 1, MINOR, MINOR + 1}}

\* The state of a script before main runs.  pc counts the statements done
\* (0: main has not checked the version); result is the local variable of
\* that name; out and glyph are the kind of the last label or glyph printed
\* and the last glyph; failed tells whether a command has returned FAIL
\* since the last label was printed; alternates tells whether labels and
\* glyphs have taken turns so far; certs and dbs are the lengths of
\* certlist and cert_databases, cert and db the loop positions in them.
\* shown lists the labels printed so far; chain lists the verdicts assigned
\* to result by commands since the last label was printed; first is the
\* glyph printed for the first label; everFailed tells whether any command
\* of the run has returned FAIL.
ScriptStart(name, opt) ==
    [name |-> name, opt |-> opt, pc |-> 0, check |-> None,
     result |-> Unbound, out |-> "none", glyph |-> "none",
     failed |-> FALSE, alternates |-> TRUE, raised |-> NoException,
     done |-> FALSE, certs |-> 0, dbs |-> 0, cert |-> 0, db |-> 0,
     shown |-> <<>>, chain |-> <<>>, first |-> "none", everFailed |-> FALSE]

NoScript == ScriptStart("none", "none")

\* The statement the script is at.
Current == Program(script.name)[script.pc]

At(op) ==
    /\ alive
    /\ ~script.done
    /\ script.pc \in 1..Len(Program(script.name))
    /\ Current.op = op

\* The script after a statement that went through: n statements further.
Forward(n) == [script EXCEPT !.pc = @ + n]

\* print(glyph) by the script s
Glyph(s, glyph) ==
    [s EXCEPT !.out = "glyph", !.glyph = glyph,
              !.alternates = @ /\ s.out = "label",
              !.first = IF Len(s.shown) = 1 THEN glyph ELSE @]

\* A label printed by the script s opens a step.
Label(s, label) ==
    [s EXCEPT !.out = "label", !.failed = FALSE, !.chain = <<>>,
              !.shown = Append(@, label),
              !.alternates = @ /\ s.out # "label"]

\* The script goes on as s, or an exception nothing catches ends the
\* process with a traceback.
GoesOn(s, exc) ==
    IF exc = NoException
    THEN script' = s /\ alive' = TRUE
    ELSE script' = [script EXCEPT !.raised = exc] /\ alive' = FALSE

\* main: e = Environment() has been done; the version check, then
\* parse_args() (the option is that of the invocation) and run_script.
Main ==
    /\ alive
    /\ script.name # "none"
    /\ script.pc = 0
    /\ LET check == min_python_version(e, version) IN
       IF AbortsOn(check)
       THEN /\ script' = [script EXCEPT !.check = check,
                                        !.raised = "RuntimeError"]
            /\ alive' = FALSE
       ELSE /\ script' = [script EXCEPT !.check = check, !.pc = 1]
            /\ alive' = TRUE
    /\ UNCHANGED <<e, host, text, constructed, labels, pad, advances, call,
                   version>>

StepLabels ==
    /\ At("Labels")
    /\ LET o == Labels_init(Current.text) IN
       /\ text' = Current.text
       /\ constructed' = (o.exc = NoException)
       /\ labels' = o.labels
       /\ pad' = o.pad
       /\ call' = [op |-> "Labels", arg |-> 0, before |-> <<>>,
                   exc |-> o.exc, ret |-> <<>>, printed |-> <<>>]
       /\ GoesOn(Forward(1), o.exc)
    /\ advances' = 0
    /\ UNCHANGED <<e, host, version>>

\* A call of a method of labels by the script, which goes on as s.
LabelsStepOf(op, arg, out, s) ==
    /\ labels' = out.labels
    /\ pad' = PadAfter(pad, out.labels)
    /\ advances' = Advanced(op)
    /\ call' = LabelsCall(op, arg, labels, out)
    /\ IF out.exited
       THEN script' = [script EXCEPT !.raised = out.exc] /\ alive' = FALSE
       ELSE GoesOn(s, out.exc)
    /\ UNCHANGED <<e, host, text, constructed, version>>

StepNext ==
    /\ At("next")
    /\ LabelsStepOf("next", 0, Labels_next(labels, pad),
                    Label(Forward(1),
                          IF labels = <<>> THEN <<>> ELSE Head(labels)))

StepPopFirst ==
    /\ At("pop_first")
    /\ LabelsStepOf("pop_first", 0, pop_first(labels), Forward(1))

StepDump ==
    /\ At("dump")
    /\ LET n == [type |-> "int", val |-> Current.n] IN
       LabelsStepOf("dump", n, dump(labels, n), Forward(1))

\* The script s after a call of the Command Runner returned the verdict.
Used(s, use, n, verdict) ==
    LET t == [s EXCEPT !.failed = @ \/ (s.out = "label" /\ verdict = e.FAIL),
                       !.everFailed = @ \/ verdict = e.FAIL] IN
    CASE use = "print" -> Glyph(t, verdict)
      [] use = "result" -> [t EXCEPT !.result = verdict,
                                     !.chain = Append(@, verdict)]
      [] use = "test" -> IF verdict = e.PASS THEN t ELSE [t EXCEPT !.pc = @ + n]
      [] OTHER -> t

StepRun ==
    /\ At("run")
    /\ \E rc \in ExitCodes :
          LET c == Current
              out == run_one_command(e, c.cmd, c.capture, c.std_in, "None", rc)
          IN
          /\ e' = out.e
          /\ host' = Host(host, out.procs)
          /\ call' = RunnerCall("run_one_command", c.cmd, c.capture, c.std_in,
                                "None", <<>>, <<>>, out)
          /\ GoesOn(Used(Forward(1), c.use, c.n, out.ret), out.exc)
    /\ UNCHANGED <<text, constructed, labels, pad, advances, version>>

\* The exit codes of the commands of a run_many_arguments call: all zero,
\* or zero up to the k-th, which is the first that differs.
FirstFailures(n) ==
    {[i \in 1..n |-> IF i = k THEN rc ELSE 0] :
        k \in 0..n, rc \in ExitCodes \ {0}}

StepRunMany ==
    /\ At("run_many")
    /\ \E rcs \in FirstFailures(Len(Current.targets)) :
          LET c == Current
              out == run_many_arguments(e, c.cmd, c.targets, <<"TARGET">>, rcs)
          IN
          /\ e' = out.e
          /\ host' = Host(host, out.procs)
          /\ call' = RunnerCall("run_many_arguments", c.cmd, TRUE, "None",
                                "None", c.targets, <<"TARGET">>, out)
          /\ GoesOn(Used(Forward(1), c.use, 0, out.ret), out.exc)
    /\ UNCHANGED <<text, constructed, labels, pad, advances, version>>

\* The variables the engine owns, which a statement of the script that
\* calls nothing leaves alone.
engine == <<e, host, text, constructed, labels, pad, advances, call, version>>

StepPrint ==
    /\ At("print")
    /\ LET glyph == IF Current.use = "PASS" THEN e.PASS ELSE script.result
       IN GoesOn(Glyph(Forward(1), glyph),
                 IF glyph = Unbound THEN "UnboundLocalError" ELSE NoException)
    /\ UNCHANGED engine

StepResultPass ==
    /\ At("result_pass")
    /\ GoesOn([Forward(1) EXCEPT !.result = e.PASS], NoException)
    /\ UNCHANGED engine

\* Mutant of Holds: every branch is taken.
HoldsAlways(cond) == TRUE

\* The condition of an if statement of a script.
Holds(cond) ==
    CASE cond = "pass" -> script.result = e.PASS
      [] cond = "fail" -> script.result = e.FAIL
      [] cond = "debug" -> e.DEBUG
      [] OTHER -> script.opt = cond

StepIf ==
    /\ At("if")
    /\ GoesOn(Forward(IF Holds(Current.use) THEN 1 ELSE 1 + Current.n),
              NoException)
    /\ UNCHANGED engine

StepSkip ==
    /\ At("skip")
    /\ GoesOn(Forward(1 + Current.n), NoException)
    /\ UNCHANGED engine

StepBack ==
    /\ At("back")
    /\ GoesOn(Forward(0 - Current.n), NoException)
    /\ UNCHANGED engine

\* mkdir, copy_files, open, write and plain messages: they call nothing of
\* the engine and are taken to go through.
StepLocal ==
    /\ At("local")
    /\ GoesOn(Forward(1), NoException)
    /\ UNCHANGED engine

\* pyenv_setup.py:115-124: the glyph tells whether the files could be
\* read and written.
StepTry ==
    /\ At("try")
    /\ \E ok \in BOOLEAN :
          GoesOn(Glyph(Forward(1), IF ok THEN e.PASS ELSE e.FAIL), NoException)
    /\ UNCHANGED engine

\* e.RESULT.stdout, handed to clean_str: None has no stdout, and a stdout
\* that was not captured has no decode.
StepStdout ==
    /\ At("stdout")
    /\ GoesOn(Forward(1),
              IF e.RESULT = None THEN "AttributeError"
              ELSE IF e.RESULT.stdout = "None" THEN "AttributeError"
              ELSE NoException)
    /\ UNCHANGED engine

\* The .crt files of the fresh certdir, which only the two commands of
\* Step 1 fill (none in dry-run mode), or the certificate databases under
\* the user's home.
StepFind ==
    /\ At("find")
    /\ \E k \in 0..MaxFound :
          /\ Current.use = "certs" /\ IsDryRun(e) => k = 0
          /\ GoesOn(IF Current.use = "certs"
                    THEN [Forward(1) EXCEPT !.certs = k]
                    ELSE [Forward(1) EXCEPT !.dbs = k],
                    NoException)
    /\ UNCHANGED engine

\* iter(list) at the head of a for loop
StepIter ==
    /\ At("iter")
    /\ GoesOn(IF Current.use = "certs"
              THEN [Forward(1) EXCEPT !.cert = 0]
              ELSE [Forward(1) EXCEPT !.db = 0],
              NoException)
    /\ UNCHANGED engine

\* The next item of the list, or past the loop when there is none.
StepFor ==
    /\ At("for")
    /\ GoesOn(IF Current.use = "certs"
              THEN (IF script.cert < script.certs
                    THEN [Forward(1) EXCEPT !.cert = @ + 1]
                    ELSE Forward(1 + Current.n))
              ELSE (IF script.db < script.dbs
                    THEN [Forward(1) EXCEPT !.db = @ + 1]
                    ELSE Forward(1 + Current.n)),
              NoException)
    /\ UNCHANGED engine

\* The final message and the return to main, which returns.
StepDone ==
    /\ At("done")
    /\ GoesOn([script EXCEPT !.done = TRUE], NoException)
    /\ UNCHANGED engine

(***************************************************************************)
(* Specifications.                                                         *)
(***************************************************************************)
\* The Command Runner under every sequence of calls, in live and in dry-run
\* mode (DEBUG is a switch in the source, classes.py:33, that no script
\* changes at run time); the Label Queue is one built from a one-line text
\* and left alone.
InitRunner ==
    /\ \E debug \in BOOLEAN : e = Environment(debug)
    /\ host = None
    /\ text = <<"a">>
    /\ constructed = TRUE
    /\ labels = Labels_init(text).labels
    /\ pad = Labels_init(text).pad
    /\ alive = TRUE
    /\ advances = 0
    /\ call = NoCall
    /\ version = <<MAJOR, MINOR>>
    /\ script = NoScript

NextRunner == RunOne \/ RunMany \/ Return

SpecRunner == InitRunner /\ [][NextRunner]_vars

\* Labels(text) for every text of the bounded set, then every sequence of
\* calls of its methods; a text without a label leaves no object behind.
\* The construction is the call in progress of the first state.
InitLabels ==
    /\ e = Environment(FALSE)
    /\ host = None
    /\ text \in Texts
    /\ LET o == Labels_init(text) IN
       /\ constructed = (o.exc = NoException)
       /\ labels = o.labels
       /\ pad = o.pad
       /\ call = [op |-> "Labels", arg |-> 0, before |-> <<>>,
                  exc |-> o.exc, ret |-> <<>>, printed |-> <<>>]
    /\ alive = TRUE
    /\ advances = 0
    /\ version = <<MAJOR, MINOR>>
    /\ script = NoScript

NextLabels == Next_label \/ PopFirst \/ PopLast \/ PopItem \/ Dump \/ Return

SpecLabels == InitLabels /\ [][NextLabels]_vars

\* Every script with every value of its option, on every host version, in
\* live and in dry-run mode, from the start of main; the commands exit with
\* every code.
\* The whole engine: every sequence of Command Runner calls and Labels
\* method calls on one Environment, in live and in dry-run mode.
InitEngine ==
    /\ \E debug \in BOOLEAN : e = Environment(debug)
    /\ host = None
    /\ text = <<"a", NL, "b">>
    /\ constructed = TRUE
    /\ labels = Labels_init(text).labels
    /\ pad = Labels_init(text).pad
    /\ alive = TRUE
    /\ advances = 0
    /\ call = NoCall
    /\ version = <<MAJOR, MINOR>>
    /\ script = NoScript

NextEngine ==
    \/ RunOne
    \/ RunManyShort
    \/ Next_label
    \/ PopFirst
    \/ PopLast
    \/ PopItem
    \/ Dump
    \/ Return

SpecEngine == InitEngine /\ [][NextEngine]_vars

InitScripts ==
    /\ \E debug \in BOOLEAN : e = Environment(debug)
    /\ host = None
    /\ text = <<>>
    /\ constructed = FALSE
    /\ labels = <<>>
    /\ pad = 0
    /\ alive = TRUE
    /\ advances = 0
    /\ call = NoCall
    /\ version \in HostVersions
    /\ \E i \in Invocations : script = ScriptStart(i.name, i.opt)

NextScripts ==
    \/ Main
    \/ StepLabels
    \/ StepNext
    \/ StepPopFirst
    \/ StepDump
    \/ StepRun
    \/ StepRunMany
    \/ StepPrint
    \/ StepResultPass
    \/ StepIf
    \/ StepSkip
    \/ StepBack
    \/ StepLocal
    \/ StepTry
    \/ StepStdout
    \/ StepFind
    \/ StepIter
    \/ StepFor
    \/ StepDone

SpecScripts == InitScripts /\ [][NextScripts]_vars

(***************************************************************************)
(* Properties of the Command Runner (checked under SpecRunner).            *)
(***************************************************************************)
IsRunOne == call.op = "run_one_command"

IsRunMany == call.op = "run_many_arguments"

Live == ~e.DEBUG

\* A command string the tokenizer accepts: every quote is closed.
WellQuoted(cmd) ==
    Cardinality({i \in 1..Len(cmd) : cmd[i] = "'"}) % 2 = 0

\* A command string that tokenizes to a program name and its arguments.
NamesProgram(cmd) ==
    /\ WellQuoted(cmd)
    /\ shlex_split(cmd).argv # <<>>
    /\ shlex_split(cmd).argv[1] # <<>>

\* The calls of run_one_command that ended with a verdict.
Returned(log) == {i \in 1..Len(log) : log[i].exc = NoException}

\* C1: run_many in live mode invokes run_one for the values in list order
\* and stops at the first Failure: an invocation that returned Failure is
\* the last one made, the verdict returned is then Failure, and the host
\* has run one child process per invocation that produced a verdict.
C1_StopsAtFirstFailure ==
    (IsRunMany /\ Live) =>
        /\ Len(call.log) <= Len(call.targets)
        /\ \A i \in 1..Len(call.log) :
              /\ call.log[i].target = call.targets[i]
              /\ call.log[i].ret = FAIL =>
                    /\ i = Len(call.log)
                    /\ call.exc = NoException
                    /\ call.ret = FAIL
        /\ call.ret = FAIL =>
              /\ call.log # <<>>
              /\ call.log[Len(call.log)].ret = FAIL
        /\ Len(call.procs) = Cardinality(Returned(call.log))

\* C1 witness: three values, the second fails, the third is never invoked.
C1_Witness ==
    /\ IsRunMany /\ Live
    /\ Len(call.targets) = 3
    /\ Len(call.log) = 2
    /\ call.log[1].ret = PASS
    /\ call.log[2].ret = FAIL
    /\ Len(call.procs) = 2
    /\ call.ret = FAIL

\* C2: run_many returns Success only after every value has been invoked
\* exactly once, in list order, each with a Success verdict; and over a
\* non-empty list on which every invocation succeeded it returns Success.
C2_SuccessAfterAll ==
    IsRunMany =>
        /\ call.ret = PASS =>
              /\ Len(call.log) = Len(call.targets)
              /\ \A i \in 1..Len(call.log) :
                    /\ call.log[i].target = call.targets[i]
                    /\ call.log[i].ret = PASS
              /\ Live => Len(call.procs) = Len(call.targets)
        /\ ( /\ call.targets # <<>>
             /\ Len(call.log) = Len(call.targets)
             /\ \A i \in 1..Len(call.log) : call.log[i].ret = PASS )
           => (call.exc = NoException /\ call.ret = PASS)
        /\ ( /\ call.targets # <<>>
             /\ \A i \in 1..Len(call.log) : call.log[i].ret = PASS )
           => Len(call.log) = Len(call.targets)

\* C2 witness: a live run over three values, all of which succeed.
C2_Witness ==
    /\ IsRunMany /\ Live
    /\ Len(call.targets) = 3
    /\ Len(call.procs) = 3
    /\ call.targets[1] # call.targets[3]
    /\ call.ret = PASS

\* C3 (as claimed): run_many over an empty list ends in a ConfigurationError
\* or a Failure verdict, and invokes no command.
C3_EmptyListIsDefinedError ==
    (IsRunMany /\ call.targets = <<>>) =>
        /\ call.exc = "ConfigurationError" \/ call.ret = FAIL
        /\ call.log = <<>>
        /\ call.procs = <<>>

\* C4 (amended): in dry-run mode run_one never spawns a child process and
\* leaves the last result unset; it returns Success for every command string
\* the tokenizer accepts and raises ValueError for one with an unclosed quote.
C4_DryRunNoSpawn ==
    (IsRunOne /\ e.DEBUG) =>
        /\ call.procs = <<>>
        /\ host = None
        /\ e.RESULT = None
        /\ WellQuoted(call.cmd) => (call.exc = NoException /\ call.ret = PASS)
        /\ ~WellQuoted(call.cmd) => call.exc = "ValueError"

\* C4 witness: a dry run of a command whose live run would be refused.
C4_Witness ==
    /\ IsRunOne /\ e.DEBUG
    /\ call.cmd = <<>>
    /\ call.capture /\ call.std_out = "file"
    /\ call.ret = PASS

\* C4 (as claimed): in dry-run mode run_one never spawns a child process and
\* returns Success for every command string, malformed quoting included.
C4_DryRunAlwaysSuccess ==
    (IsRunOne /\ e.DEBUG) =>
        /\ call.procs = <<>>
        /\ call.exc = NoException
        /\ call.ret = PASS

\* C5: in live mode, when run_one has run a child process, the context's
\* last result is that child's raw result, and the verdict is Success
\* exactly when its exit code is 0 and Failure exactly when it is not.
C5_VerdictFromExitCode ==
    (IsRunOne /\ Live /\ call.procs # <<>>) =>
        /\ Len(call.procs) = 1
        /\ e.RESULT = call.procs[1]
        /\ e.RESULT.args = shlex_split(call.cmd).argv
        /\ e.RESULT.stdout = (IF call.capture THEN "bytes" ELSE "None")
        /\ call.exc = NoException
        /\ call.ret \in {PASS, FAIL}
        /\ call.ret = PASS <=> e.RESULT.returncode = 0
        /\ call.ret = FAIL <=> e.RESULT.returncode # 0

\* C5 witness: a live command killed by a signal: Failure, exit code not 0.
C5_Witness ==
    /\ IsRunOne /\ Live
    /\ call.ret = FAIL
    /\ e.RESULT # None
    /\ e.RESULT.returncode < 0

\* C6: the last result is unset until a command has run, and is ever after
\* the result of the child process the host completed most recently.
C6_LastResultIsLatest ==
    /\ e.RESULT = host
    /\ (call.op \in {"run_one_command", "run_many_arguments"} /\ call.procs # <<>>) =>
          e.RESULT = call.procs[Len(call.procs)]

\* C6 witness: one call ran several commands with different results; the
\* slot holds the last and not the first.
C6_Witness ==
    /\ IsRunMany
    /\ Len(call.procs) >= 2
    /\ call.procs[1] # call.procs[Len(call.procs)]
    /\ e.RESULT = call.procs[Len(call.procs)]

\* Whether old occurs in s.
Occurs(old, s) ==
    \E i \in 1..Len(s) : StartsWith(Drop(s, i - 1), old)

Chars(s) == {s[i] : i \in 1..Len(s)}

\* C7 (amended): for each value v, run_many passes to run_one the original
\* template in which every occurrence of the marker (non-overlapping, left
\* to right) is replaced by v; the template is the same for every value.
\* When v shares no character with a non-empty marker, no occurrence of
\* the marker is left.
C7_EveryOccurrenceReplaced ==
    IsRunMany =>
        \A i \in 1..Len(call.log) :
            /\ call.log[i].cmd = str_replace(call.cmd, call.marker, call.targets[i])
            /\ ( /\ call.marker # <<>>
                 /\ Chars(call.marker) \cap Chars(call.targets[i]) = {} )
               => ~Occurs(call.marker, call.log[i].cmd)

\* C7 witness: a template with the marker twice, both replaced.
C7_Witness ==
    /\ IsRunMany
    /\ call.cmd = <<"T", "T">>
    /\ call.marker = <<"T">>
    /\ Len(call.log) = 2
    /\ call.log[1].cmd = call.targets[1] \o call.targets[1]
    /\ call.log[2].cmd = call.targets[2] \o call.targets[2]
    /\ call.targets[1] # call.targets[2]

\* C7 (as claimed): for a marker that is not the empty string, only its
\* first occurrence in the template is replaced by the value.
C7_FirstOccurrenceOnly ==
    (IsRunMany /\ call.marker # <<>>) =>
        \A i \in 1..Len(call.log) :
            call.log[i].cmd =
                str_replace_first(call.cmd, call.marker, call.targets[i])

\* C8 (as claimed): in live mode run_one returns a verdict, without raising,
\* for every well-formed command string, every exit code and every
\* combination of the capture, stdin and stdout arguments.
C8_NeverRaisesOnWellFormed ==
    (IsRunOne /\ Live /\ NamesProgram(call.cmd)) =>
        /\ call.exc = NoException
        /\ call.ret \in {PASS, FAIL}

(***************************************************************************)
(* Properties of the Label Queue (checked under SpecLabels).               *)
(***************************************************************************)
\* The labels the queue was constructed with.
InitialLabels == Labels_init(text).labels

\* C9: discard(n) with n an int, 1 <= n <= size, removes exactly the first n
\* labels and keeps the rest in order; with n > size, n <= 0 or n not an
\* int the queue is unchanged.  It never raises.
C9_DiscardAllOrNothing ==
    (call.op = "dump") =>
        /\ call.exc = NoException
        /\ alive
        /\ IF call.arg.type = "int" /\ call.arg.val >= 1
              /\ call.arg.val <= Len(call.before)
           THEN /\ Len(labels) = Len(call.before) - call.arg.val
                /\ \A i \in 1..Len(labels) : labels[i] = call.before[i + call.arg.val]
           ELSE labels = call.before

\* C9 witness: two of three labels are discarded, the third stays.
C9_Witness ==
    /\ call.op = "dump"
    /\ Len(call.before) = 3
    /\ call.arg = [type |-> "int", val |-> 2]
    /\ labels = <<call.before[3]>>
    /\ call.before[3] # call.before[1]

\* C10: on a queue of size N the k-th of k successive advance() calls
\* succeeds and leaves N - k labels for k <= N, so the N-th leaves it empty,
\* and fails with ExhaustedListError for k = N + 1; advance, take_first,
\* take_last and take_at on an empty queue fail with that error and leave
\* the queue empty.
C10_ExhaustedAfterN ==
    /\ (call.op = "next" /\ advances >= 1 /\ advances <= Len(InitialLabels)) =>
          /\ call.exc = NoException
          /\ call.printed = Dots(InitialLabels[advances], pad)
          /\ Len(labels) = Len(InitialLabels) - advances
    /\ (call.op = "next" /\ advances = Len(InitialLabels) + 1) =>
          /\ call.exc = "ExhaustedListError"
          /\ labels = <<>>
    /\ (call.op \in {"next", "pop_first", "pop_last", "pop_item"}
          /\ call.before = <<>>) =>
          /\ call.exc = "ExhaustedListError"
          /\ labels = <<>>
          /\ alive

\* C10 witness: the fourth advance() on a queue of three labels.
C10_Witness ==
    /\ call.op = "next"
    /\ Len(InitialLabels) = 3
    /\ advances = 4
    /\ call.exc = "ExhaustedListError"


\* The call in progress is a successful call of the Labels method op.
Removed(op) == call.op = op /\ call.exc = NoException

\* The 1-based position a valid pop_item index names in the list before
\* the call.
PositionOf(index) ==
    IF index < 0 THEN index + Len(call.before) + 1 ELSE index + 1

\* C11: on a non-empty queue each removal takes exactly one label and keeps
\* the others in their order: next() and pop_first() take the front label
\* (the k-th next() on an untouched queue prints the k-th initial label),
\* pop_last() takes the back label, and pop_item(i) with a valid i takes
\* and returns the label at position i.
C11_RemovesExactlyOne ==
    /\ Removed("next") =>
          /\ labels = Tail(call.before)
          /\ call.printed = Dots(Head(call.before), pad)
          /\ advances >= 1 /\ advances <= Len(InitialLabels)
                => call.printed = Dots(InitialLabels[advances], pad)
    /\ Removed("pop_first") =>
          /\ labels = Tail(call.before)
          /\ call.ret = Head(call.before)
    /\ Removed("pop_last") =>
          /\ labels = SubSeq(call.before, 1, Len(call.before) - 1)
          /\ call.ret = call.before[Len(call.before)]
    /\ Removed("pop_item") =>
          LET i == PositionOf(call.arg) IN
          /\ i \in 1..Len(call.before)
          /\ call.ret = call.before[i]
          /\ Len(labels) = Len(call.before) - 1
          /\ \A k \in 1..Len(labels) :
                labels[k] = IF k < i THEN call.before[k] ELSE call.before[k + 1]

\* pop_item took a label from the middle of a queue of three.
C11_Witness ==
    /\ Removed("pop_item")
    /\ Len(call.before) = 3
    /\ PositionOf(call.arg) = 2
    /\ call.before[1] # call.before[3]
    /\ labels = <<call.before[1], call.before[3]>>

\* The index of the pop_item call in progress is outside the list it was
\* given.
OutOfRange ==
    \/ call.arg >= Len(call.before)
    \/ call.arg < 0 - Len(call.before)

\* C12: pop_item with an out-of-range index on a non-empty queue reports the
\* error and ends the process (no label returned, no ExhaustedListError, the
\* queue as it was, and no operation possible afterwards); pop_item on an
\* empty queue raises ExhaustedListError whatever the index.
C12_OutOfRangeEndsProcess ==
    /\ call.op = "pop_item" /\ call.before # <<>> /\ OutOfRange =>
          /\ call.exc = "SystemExit"
          /\ call.ret = <<>>
          /\ labels = call.before
          /\ ~alive
    /\ call.op = "pop_item" /\ call.before = <<>> =>
          /\ call.exc = "ExhaustedListError"
          /\ alive
    /\ ~alive => ~ENABLED NextLabels

\* An index one past the end of a queue of two ended the process.
C12_Witness ==
    /\ call.op = "pop_item"
    /\ Len(call.before) = 2
    /\ call.arg = 2
    /\ ~alive

\* Position i of the text holds the first character of a label: it is not
\* white space, and only blanks lie between it and the start of its line.
LineStart(i) ==
    /\ ~IsSpace(text[i])
    /\ \A j \in 1..(i - 1) :
          (\A m \in j..(i - 1) : text[m] # NL) => text[j] = " "

\* Position i of the text holds the last character of a label.
LineEnd(i) ==
    /\ ~IsSpace(text[i])
    /\ \A j \in (i + 1)..Len(text) :
          (\A m \in (i + 1)..j : text[m] # NL) => text[j] = " "

Firsts == {i \in 1..Len(text) : LineStart(i)}

Lasts == {i \in 1..Len(text) : LineEnd(i)}

\* The k-th smallest member of a set of numbers.
Kth(S, k) == CHOOSE x \in S : Cardinality({y \in S : y < x}) = k - 1

\* The non-blank lines of the text without their surrounding white space,
\* read off the text position by position.
TrimmedLines ==
    [k \in 1..Cardinality(Firsts) |->
        SubSeq(text, Kth(Firsts, k), Kth(Lasts, k))]

\* The length of the longest of the non-blank lines.
LongestLine ==
    CHOOSE n \in 0..Len(text) :
       /\ \A k \in 1..Len(TrimmedLines) : Len(TrimmedLines[k]) <= n
       /\ \E k \in 1..Len(TrimmedLines) : Len(TrimmedLines[k]) = n

\* C13: for every text with at least one non-blank line, Labels(text) yields
\* the trimmed non-blank lines in their order, as many labels as there are
\* non-blank lines, and a pad of the longest trimmed label's length plus 3.
C13_ConstructionTrimsLines ==
    call.op = "Labels" /\ Firsts # {} =>
       /\ constructed
       /\ call.exc = NoException
       /\ labels = TrimmedLines
       /\ Len(labels) = Cardinality(Firsts)
       /\ pad = LongestLine + 3

\* A text with a leading blank and two lines of different lengths.
C13_Witness ==
    /\ call.op = "Labels"
    /\ Len(text) = 5
    /\ text[1] = " "
    /\ Len(labels) = 2
    /\ Len(labels[1]) > Len(labels[2])
    /\ pad = 5

\* C14: the pad is fixed at construction: after any sequence of next,
\* pop_first, pop_last, pop_item and dump calls it is still the length of
\* the longest initial label plus 3, also when that label is gone.
C14_PadIsFixed ==
    constructed => pad = LongestLine + 3

\* The longest label has been consumed and shorter ones are left.
C14_Witness ==
    /\ constructed
    /\ call.op \in {"next", "pop_first", "pop_last", "pop_item", "dump"}
    /\ labels # <<>>
    /\ \A k \in 1..Len(labels) : Len(labels[k]) + 3 < pad

\* C15: Labels(text) for a text whose lines are all blank (the empty text
\* included) fails, with the ValueError that max() raises on an empty list,
\* and leaves no queue: no method is ever called on it.
C15_BlankTextFails ==
    Firsts = {} =>
       /\ ~constructed
       /\ labels = <<>>
       /\ call.op \in {"Labels", "none"}
       /\ call.op = "Labels" => call.exc = "ValueError"

\* The construction from a text of blanks and line ends failed.
C15_Witness ==
    /\ call.op = "Labels"
    /\ call.exc = "ValueError"
    /\ Len(text) >= 2
    /\ ~constructed


(***************************************************************************)
(* Properties of the Environment (checked under SpecEngine).               *)
(***************************************************************************)
\* The attributes of the Environment other than RESULT.
FixedAttributes ==
    {"MAJOR", "MINOR", "PASS", "FAIL", "DEBUG", "HOME", "UBUNTU", "OHMYZSH",
     "SCRIPTS", "SHELL", "SYSTEM", "VIM"}

\* What a step of the engine does to the Environment.
ContextFrame ==
    /\ \A f \in FixedAttributes : e'[f] = e[f]
    /\ e'.RESULT # e.RESULT =>
          /\ ~e.DEBUG
          /\ call'.op \in {"run_one_command", "run_many_arguments"}
          /\ call'.procs # <<>>
          /\ e'.RESULT = call'.procs[Len(call'.procs)]
    /\ call'.op \notin {"run_one_command", "run_many_arguments"} => e' = e
    /\ e.DEBUG => e' = e

\* C18: after Environment() the two glyphs, the minimum-version values and
\* the paths never change under any sequence of engine operations; RESULT is
\* the only attribute that changes, and only through a live run_one_command
\* that ran a child process (Labels methods and dry-run calls leave the
\* whole object as it was).
C18_OnlyResultChanges == [][ContextFrame]_vars

\* A Labels method was called on a queue whose Environment holds the result
\* of a live command.
C18_Witness ==
    /\ call.op = "pop_item"
    /\ call.exc = NoException
    /\ ~e.DEBUG
    /\ e.RESULT # None

(***************************************************************************)
(* Properties of the scripts (checked under SpecScripts).                  *)
(***************************************************************************)
\* main has made its version check.
Checked == script.pc > 0 \/ script.raised = "RuntimeError"

\* The version v is the version <<major, minor>> or a later one.
AtLeast(v, major, minor) ==
    v[1] > major \/ (v[1] = major /\ v[2] >= minor)

\* C16: min_python_version returns None exactly when the host version is,
\* as a version, the required one or later, and a message for every host
\* version below it.
C16_EmptyIffVersionSatisfied ==
    Checked => (script.check = None <=> AtLeast(version, e.MAJOR, e.MINOR))

\* C17: in every entry point, when min_python_version returns a message the
\* process ends before any step of the script: no Labels object is made, no
\* label is consumed and no command goes through the Command Runner.
C17_AbortsBeforeAnyStep ==
    Checked /\ script.check # None =>
       /\ ~alive
       /\ script.raised = "RuntimeError"
       /\ script.pc = 0
       /\ ~constructed
       /\ labels = <<>>
       /\ call = NoCall
       /\ host = None
       /\ e.RESULT = None
       /\ script.out = "none"

\* setup.py on a host of version 3.9 ended in main.
C17_Witness ==
    /\ script.name = "setup"
    /\ version = <<3, 9>>
    /\ script.check = VersionMessage(e)
    /\ ~alive

\* The script has ended: it returned, or an exception or sys.exit ended it.
Ended == script.done \/ ~alive

\* C19: in every script and for every combination of command verdicts,
\* labels and glyphs take turns in the output: a label printed by next() is
\* followed by exactly one glyph before the next label is printed or the
\* script ends.
C19_LabelsAndGlyphsAlternate ==
    /\ script.alternates
    /\ Ended => script.out # "label"

\* C20: in every script the glyph printed for a step is the verdict of the
\* commands run in that step: FAIL whenever a command of the step returned
\* FAIL, PASS only when every command of the step returned PASS.
C20_GlyphIsStepVerdict ==
    script.out = "glyph" /\ script.failed => script.glyph = e.FAIL


\* C21: within a chained step (docker_setup.py Steps 4 and 6, setup.py
\* Steps 5, 8, 9, 13, 14, 19 and 22, and every other step that assigns the
\* verdicts of its commands to result) a command of the chain is executed
\* only if every earlier command of the chain returned PASS, and the glyph
\* printed for the step is the verdict of the last command executed.
C21_ChainStopsAtFirstFailure ==
    /\ \A i \in 1..(Len(script.chain) - 1) : script.chain[i] = e.PASS
    /\ script.out = "glyph" /\ script.chain # <<>> =>
          script.glyph = script.chain[Len(script.chain)]

\* Step 4 of docker_setup.py stopped after gpg failed: curl and gpg ran, mv
\* and rm did not, and the failure glyph was printed.
C21_Witness ==
    /\ script.name = "docker_setup"
    /\ script.shown # <<>>
    /\ script.shown[Len(script.shown)] = <<"Installing Docker public key">>
    /\ script.chain = <<PASS, FAIL>>
    /\ script.out = "glyph"
    /\ script.glyph = FAIL


Pips == <<"pip", "jupyter", "jupyterlab", "pytest">>

TuneupLabels ==
    << <<"Pulling updates to git repo">>,
       <<"Scanning for updates to pip">>,
       <<"Scanning for updates to jupyter">>,
       <<"Scanning for updates to jupyter lab">>,
       <<"Scanning for updates to pytest">>,
       <<"Synchronizing jupyter notebooks">> >>

\* The labels of tuneup.py from the k-th on.
TuneupFrom(k) == SubSeq(TuneupLabels, k, 6)

LastShown == script.shown[Len(script.shown)]

RanCommand(ws) == call.op = "run_one_command" /\ call.cmd = Words(ws)

\* C23: in tuneup.py with --all, whichever packages are installed, the k-th
\* package of the list finds its own label at the front of the queue when
\* `pip3 show` runs; the label is printed when the package is installed, so
\* that the upgrade runs under the label of the package upgraded, and is
\* removed unprinted when it is not; the notebooks step runs under
\* "Synchronizing jupyter notebooks", the last label.
C23_OneLabelPerPackage ==
    script.name = "tuneup" /\ script.opt = "all" =>
       /\ \A k \in 1..4 :
             /\ RanCommand(<<"pip3", "show", Pips[k]>>) =>
                   labels = TuneupFrom(k + 1)
             /\ RanCommand(<<"pip3", "install", "--upgrade", Pips[k]>>) =>
                   /\ LastShown = TuneupLabels[k + 1]
                   /\ labels = TuneupFrom(k + 2)
       /\ call.op = "pop_first" =>
             /\ call.before # <<>>
             /\ call.ret = Head(call.before)
             /\ call.printed = <<>>
             /\ labels = Tail(call.before)
             /\ \A i \in 1..Len(script.shown) : script.shown[i] # call.ret
             /\ \E k \in 1..4 : call.ret = TuneupLabels[k + 1]
       /\ RanCommand(<<"git", "-C", "~/.notebooksrepo", "pull">>) =>
             /\ LastShown = TuneupLabels[6]
             /\ labels = <<>>
       /\ script.done => LastShown = TuneupLabels[6]

\* pip and jupyter lab are installed, jupyter and pytest are not, and the
\* notebooks step has printed its label.
C23_Witness ==
    /\ script.name = "tuneup"
    /\ script.opt = "all"
    /\ script.shown = <<TuneupLabels[1], TuneupLabels[2], TuneupLabels[4],
                        TuneupLabels[6]>>
    /\ script.done


\* The nine labels of usnapatch.py:68-77, a label being one symbol.
UsnapatchLabels ==
    << <<"Pulling updated USNA enterprise certificates">>,
       <<"Patching openssl configuration">>,
       <<"Removing old certificates">>,
       <<"Creating fresh directories">>,
       <<"Copying new certificates">>,
       <<"Running update utilities">>,
       <<"Finding certificate databases in user's home">>,
       <<"Updating certificate databases">>,
       <<"Cleaning up">> >>

\* The labels usnapatch.py is to print in each mode.
UsnapatchShown(mode) ==
    IF mode = "system"
    THEN SubSeq(UsnapatchLabels, 1, 6) \o <<UsnapatchLabels[9]>>
    ELSE <<UsnapatchLabels[1]>> \o SubSeq(UsnapatchLabels, 7, 9)

IsPrefix(s, t) == Len(s) <= Len(t) /\ s = SubSeq(t, 1, Len(s))

\* C24: in usnapatch.py, for every combination of verdicts, the labels
\* printed so far are the first labels of the mode's list (system: the
\* first six, then "Cleaning up"; browser: the first, the two browser
\* labels, then "Cleaning up") and all of that list once the script is done;
\* every dump is asked for a count between 1 and the size of the queue, and
\* removes that many labels from the front, printing nothing.
C24_DumpKeepsLabelsInStep ==
    script.name = "usnapatch" =>
       /\ IsPrefix(script.shown, UsnapatchShown(script.opt))
       /\ script.done => script.shown = UsnapatchShown(script.opt)
       /\ call.op = "dump" =>
             /\ call.arg.val = (IF script.opt = "system" THEN 2 ELSE 5)
             /\ call.arg.val \in 1..Len(call.before)
             /\ labels = SubSeq(call.before, call.arg.val + 1, Len(call.before))
             /\ Len(labels) = Len(call.before) - call.arg.val
             /\ call.exc = NoException
             /\ call.printed = <<>>

\* Browser mode has dumped the five system labels from a queue of eight.
C24_Witness ==
    /\ script.name = "usnapatch"
    /\ script.opt = "browser"
    /\ call.op = "dump"
    /\ call.before = SubSeq(UsnapatchLabels, 2, 9)
    /\ labels = SubSeq(UsnapatchLabels, 7, 9)


\* C25: whenever a script reads e.RESULT (the two reads of e.RESULT.stdout
\* at docker_setup.py:121 and 125), e.RESULT is set and is the completed
\* process of the command the script issued in the statement just before
\* the read, in live mode and in dry-run mode.
C25_ResultIsOfLastCommand ==
    At("stdout") =>
       /\ e.RESULT # None
       /\ call.op = "run_one_command"
       /\ call.cmd = Program(script.name)[script.pc - 1].cmd
       /\ call.procs # <<>>
       /\ e.RESULT = call.procs[Len(call.procs)]


\* The glyph of the step "Copying new certificates" has just been printed.
CopyStepPrinted ==
    /\ script.shown # <<>>
    /\ LastShown = UsnapatchLabels[5]
    /\ script.out = "glyph"

\* C26: in usnapatch.py, system mode, certlist is non-empty only if curl
\* and tar of Step 1 both returned PASS; with an empty certlist the step
\* "Copying new certificates" runs no command and prints the glyph of Step
\* 1; with a non-empty certlist the copies run in order up to the first
\* that fails, and the glyph printed is the verdict of the last copy run.
C26_CopyLoopVerdict ==
    script.name = "usnapatch" /\ script.opt = "system" =>
       /\ script.certs > 0 /\ Len(script.shown) = 1 =>
             script.chain = <<e.PASS, e.PASS>>
       /\ script.certs > 0 /\ Len(script.shown) > 1 => script.first = e.PASS
       /\ CopyStepPrinted /\ script.certs = 0 =>
             /\ script.chain = <<>>
             /\ call.op = "next"
             /\ script.glyph = script.first
       /\ CopyStepPrinted /\ script.certs > 0 =>
             /\ script.chain # <<>>
             /\ Len(script.chain) <= script.certs
             /\ \A i \in 1..(Len(script.chain) - 1) : script.chain[i] = e.PASS
             /\ Len(script.chain) < script.certs =>
                   script.chain[Len(script.chain)] = e.FAIL
             /\ script.glyph = script.chain[Len(script.chain)]
             /\ RanCommand(<<"sudo", "cp", "cert",
                             "/usr/local/share/ca-certificates/dod">>)

\* Of two certificates the first copy failed: one copy was run and the
\* failure glyph printed.
C26_Witness ==
    /\ script.name = "usnapatch"
    /\ script.opt = "system"
    /\ CopyStepPrinted
    /\ script.certs = 2
    /\ script.chain = <<FAIL>>
    /\ script.glyph = FAIL


\* s can be had from t by leaving elements out.
RECURSIVE IsSubsequence(_, _)
IsSubsequence(s, t) ==
    IF s = <<>> THEN TRUE
    ELSE IF t = <<>> THEN FALSE
    ELSE IF Head(s) = Head(t) THEN IsSubsequence(Tail(s), Tail(t))
    ELSE IsSubsequence(s, Tail(t))

\* C27: after any sequence of next, pop_first, pop_last, pop_item and dump
\* calls, failed ones included, the labels left are labels of the text the
\* queue was constructed from, in the order of the text, and no call makes
\* the queue longer.
C27_QueueOnlyShrinks ==
    /\ [](IsSubsequence(labels, TrimmedLines))
    /\ [][/\ Len(labels') <= Len(labels)
          /\ IsSubsequence(labels', labels)]_vars

\* Of three labels the first and then the last were taken: the middle one
\* is left.
C27_Witness ==
    /\ Len(TrimmedLines) = 3
    /\ TrimmedLines[1] # TrimmedLines[2]
    /\ call.op = "pop_last"
    /\ call.exc = NoException
    /\ labels = <<TrimmedLines[2]>>

====
